---- MODULE Spec2Model ----
(***************************************************************************)
(* K8sNotificationSource (package notification) and the datalayer          *)
(* notification types: one source watching one GVK, its sync.Map registry  *)
(* of NotificationExtractors, AddExtractor, Extractors and the synchronous *)
(* fan-out of Notify.                                                      *)
(*                                                                         *)
(* Notify is modelled step by step (begin, one step per callback of        *)
(* sync.Map.Range, return): the callbacks run plugin code, and an          *)
(* AddExtractor of another goroutine may fall between them.  Notify calls  *)
(* themselves do not overlap: the framework core is their only caller and  *)
(* pumps the events of one GVK one after another.                          *)
(***************************************************************************)
EXTENDS Integers, Sequences, FiniteSets, Bags, TLC

(***************************************************************************)
(* Bounds of the model.                                                    *)
(***************************************************************************)
MaxNotify == 2     \* Notify calls in one behaviour

(***************************************************************************)
(* EventType (iota constants).                                             *)
(***************************************************************************)
EventAddOrUpdate == 0
EventDelete == 1
EventTypes == {EventAddOrUpdate, EventDelete}

(***************************************************************************)
(* Plugins.  A plugin is known by its TypedName and by the capability its  *)
(* concrete type implements: the base Extractor only, or                   *)
(* NotificationExtractor (which embeds Extractor).  Nil is the nil         *)
(* interface value.                                                        *)
(***************************************************************************)
Names == {"lora-tracker", "pod-cache"}
Types == {"adapters", "endpoints"}
TypedName == [Type : Types, Name : Names]

Extractor == "Extractor"
NotificationExtractor == "NotificationExtractor"

\* The plugins of the model: two NotificationExtractors that share a name and
\* differ in type, a third under another name, and a plugin that implements
\* the base Extractor only.
NotifPlugins ==
    {[cap |-> NotificationExtractor,
      tn |-> [Type |-> "adapters", Name |-> "lora-tracker"]],
     [cap |-> NotificationExtractor,
      tn |-> [Type |-> "endpoints", Name |-> "lora-tracker"]],
     [cap |-> NotificationExtractor,
      tn |-> [Type |-> "endpoints", Name |-> "pod-cache"]]}
BasePlugins ==
    {[cap |-> Extractor, tn |-> [Type |-> "adapters", Name |-> "lora-tracker"]]}
Plugins == NotifPlugins \cup BasePlugins
Nil == [cap |-> "nil"]

\* The assertion weakened to the base capability: any non-nil Extractor passes.
IsAnyExtractor(ext) == ext # Nil

\* ext.(fwkdl.NotificationExtractor): the type assertion of AddExtractor and
\* of the Range callbacks.
IsNotificationExtractor(ext) == ext # Nil /\ ext.cap = NotificationExtractor

\* TypedName.String(): "<Type>/<Name>".
TypedNameString(tn) == tn.Type \o "/" \o tn.Name

\* Contents of an unstructured.Unstructured: the set of fields it holds
\* (the empty object, or the state of a pod).
Fields == {"pod-1"}
Contents == SUBSET Fields

\* The error values an ExtractNotification may return (nil, or a failure).
NoErr == "<nil>"
ExtractErrs == {NoErr, "failed"}

VARIABLES
    typedName,    \* K8sNotificationSource.typedName
    gvk,          \* K8sNotificationSource.gvk
    extractors,   \* K8sNotificationSource.extractors: name -> extractor
    addArg,       \* the extractor the last AddExtractor call was given
    addPre,       \* the registry as that call found it
    addErr,       \* what that call returned: the format of the error
    addErrArgs,   \* the values formatted into that error
    stored,       \* per name: the extractor whose AddExtractor returned nil
    npc,          \* position of the Notify call: "idle", "ranging" (inside
                  \* Range) or "ranged" (Range stopped by its callback)
    event,        \* the NotificationEvent of the Notify call in progress
    heap,         \* address -> contents of the live event objects
    startKeys,    \* keys the map held when Range began
    visited,      \* keys Range has called back for
    errs,         \* the errs slice of the Notify call
    logOut,       \* what the Notify call in progress, or the last one, logged
    notifyOut,    \* what the last Notify call handed back to its caller
    notifyCount,  \* number of Notify calls begun
    given,        \* the event as given to the current (last) Notify call
    sameRun,      \* how many Notify calls in a row, up to now, were given it
    calls,        \* ExtractNotification calls of the current (last) Notify
    recv,         \* per extractor: numbers of the events it was called with
    regAt,        \* per registered name: notifyCount when it was stored
    ctxDone,      \* whether the context handed to Notify is cancelled
    active,       \* keys whose ExtractNotification call has not yet returned
    collectOut,   \* what the last Collect call returned
    gpc,          \* per calling goroutine: where its AddExtractor call is
    garg,         \* per calling goroutine: the extractor it passes
    gseen,        \* per calling goroutine: the registry when its call began
    gret,         \* per calling goroutine: what its call returned
    fs,           \* flag.FlagSet: name -> the flag's Value
    mem,          \* address -> value of the variables flags are bound to
    out,          \* what was written to fs.Output()
    flagsArg,     \* the call that returned last, when it is an AddFlags: its flags
    varsArg,      \* ... its vars
    flagsErr,     \* ... and what it returned
    setOut,       \* the call that returned last, when it is an fs.Set
    lastSet,      \* per flag name: the string of its last successful Set
    getOut,       \* the call that returned last, when it is a Get...FlagValue
    undef,        \* FlagSet.undef: names Set was called with before definition
    tracksUndef,  \* whether the flag package of the build keeps FlagSet.undef
    panicMsg,     \* the value the program panicked with, if it has
    fsPre,        \* the FlagSet as that AddFlags call found it
    memPre        \* the variables as that AddFlags call found them

vars == <<typedName, gvk, extractors, addArg, addPre, addErr, addErrArgs,
          stored,
          npc, event,
          heap, startKeys, visited, errs, logOut, notifyOut, notifyCount,
          given, sameRun, calls, recv, regAt, ctxDone, active, collectOut,
          gpc, garg, gseen, gret, fs, mem, out, flagsArg, varsArg, flagsErr,
          setOut, lastSet, getOut, undef, tracksUndef, panicMsg, fsPre,
          memPre>>

srcVars == <<typedName, gvk>>
addVars == <<addArg, addPre, addErr, addErrArgs, stored>>
notifyVars == <<npc, event, heap, startKeys, visited, errs, logOut,
                notifyOut, notifyCount, given, sameRun, calls, recv>>
ctxVars == <<ctxDone, active, collectOut>>
raceVars == <<gpc, garg, gseen, gret>>
flagVars == <<fs, mem, out, flagsArg, varsArg, flagsErr, setOut, lastSet,
              getOut, undef, tracksUndef, panicMsg, fsPre, memPre>>

NoEvent == [Type |-> EventAddOrUpdate, Object |-> 0]
NotCalled == "not called"
Void == "void"

\* The goroutines that may call AddExtractor at the same time.
Goroutines == {"g1", "g2"}

\* Go values with their dynamic type, as held by an any: a string, a bool,
\* an int, a float64, or nil; and pointers to variables.
GoString(v) == [type |-> "string", val |-> v]
GoBool(v) == [type |-> "bool", val |-> v]
GoInt(v) == [type |-> "int", val |-> v]
GoFloat(v) == [type |-> "float64", val |-> v]
GoDuration(v) == [type |-> "time.Duration", val |-> v]
NilValue == [type |-> "nil"]
PointerTo(t, a) == [type |-> "*" \o t, addr |-> a]

\* The variables of the program flags get bound to, holding their zero
\* values before AddFlags: certPath string, secureServing bool, grpcPort int,
\* timeout time.Duration.
ZeroMem ==
    (1 :> GoString("")) @@ (2 :> GoBool(FALSE)) @@ (3 :> GoInt(0))
    @@ (4 :> GoDuration(0))

\* An error made by fmt.Errorf: its format and the values formatted into it;
\* the nil error; and the state of a result before the first call.
Errorf(format, args) == [fmt |-> format, args |-> args]
NilError == Errorf("<nil>", << >>)
NoCall == [fn |-> "none"]

\* A call that did not return because it panicked; and the panic value of a
\* program that has not panicked.
NoReturn == Errorf("no return", << >>)
NoPanic == Errorf("no panic", << >>)

\* The arguments the source is constructed with: a source of pod events.
PluginType == "k8s-notification-source"
PluginName == "pods"
PodGVK == [Group |-> "", Version |-> "v1", Kind |-> "Pod"]

\* A constructor that forgets the resource kind it is given.
NewSourceWithoutGVK(pluginType, pluginName, kind) ==
    /\ typedName = [Type |-> pluginType, Name |-> pluginName]
    /\ gvk = [Group |-> "", Version |-> "", Kind |-> ""]
    /\ extractors = << >>

(***************************************************************************)
(* NewK8sNotificationSource: the zero sync.Map, the given identity.        *)
(***************************************************************************)
NewK8sNotificationSource(pluginType, pluginName, kind) ==
    /\ typedName = [Type |-> pluginType, Name |-> pluginName]
    /\ gvk = kind
    /\ extractors = << >>

\* K8sNotificationSource.TypedName and K8sNotificationSource.GVK.
SourceTypedName == typedName
GVK == gvk

InitSource ==
    /\ NewK8sNotificationSource(PluginType, PluginName, PodGVK)
    /\ addArg = Nil
    /\ addPre = << >>
    /\ addErr = NoErr
    /\ addErrArgs = << >>
    /\ stored = << >>
    /\ npc = "idle"
    /\ event = NoEvent
    /\ heap = << >>
    /\ startKeys = {}
    /\ visited = {}
    /\ errs = << >>
    /\ logOut = << >>
    /\ notifyOut = Void
    /\ notifyCount = 0
    /\ given = [Type |-> EventAddOrUpdate, Object |-> {}]
    /\ sameRun = 0
    /\ calls = << >>
    /\ recv = [p \in NotifPlugins |-> << >>]
    /\ regAt = << >>
    /\ ctxDone = FALSE
    /\ active = {}
    /\ collectOut = NotCalled
    /\ gpc = [g \in Goroutines |-> "idle"]
    /\ garg = [g \in Goroutines |-> Nil]
    /\ gseen = [g \in Goroutines |-> << >>]
    /\ gret = [g \in Goroutines |-> NotCalled]

\* flag.NewFlagSet("", ...): no flag defined, nothing written; the variables
\* of the program hold their zero values.
NewFlagSet ==
    /\ fs = << >>
    /\ mem = ZeroMem
    /\ out = << >>
    /\ flagsArg = << >>
    /\ varsArg = << >>
    /\ flagsErr = Errorf(NotCalled, << >>)
    /\ setOut = NoCall
    /\ lastSet = << >>
    /\ getOut = NoCall
    /\ undef = {}
    /\ panicMsg = NoPanic
    /\ fsPre = << >>
    /\ memPre = ZeroMem

\* The source as constructed, in a program built with a flag package that
\* keeps FlagSet.undef (Go 1.21 and later).
Init == InitSource /\ NewFlagSet /\ tracksUndef = TRUE

\* The flags of a program built with either kind of flag package: the Go
\* version of the build is not fixed by the source.
InitFlags == InitSource /\ NewFlagSet /\ tracksUndef \in BOOLEAN

(***************************************************************************)
(* The errors of AddExtractor, each known by its format; the text names    *)
(* the values formatted into it.                                           *)
(***************************************************************************)
ErrNilExtractor == "cannot add nil extractor"
ErrNotNotificationExtractor == "extractor %s does not implement NotificationExtractor"
ErrDuplicate == "duplicate extractor %s on notification source %s"

\* A plain Store in place of LoadOrStore: the new value replaces the old one.
StoreOverwrites(m, key, value) ==
    [m |-> (key :> value) @@ [k \in DOMAIN m \ {key} |-> m[k]],
     actual |-> value, loaded |-> key \in DOMAIN m]

\* A map with room for one entry: storing under a new key drops the others.
LoadOrStoreEvicts(m, key, value) ==
    IF key \in DOMAIN m
    THEN [m |-> m, actual |-> m[key], loaded |-> TRUE]
    ELSE [m |-> (key :> value), actual |-> value, loaded |-> FALSE]

(***************************************************************************)
(* sync.Map.LoadOrStore: the existing value if the key is present,         *)
(* otherwise stores the value; loaded tells which.                         *)
(***************************************************************************)
LoadOrStore(m, key, value) ==
    IF key \in DOMAIN m
    THEN [m |-> m, actual |-> m[key], loaded |-> TRUE]
    ELSE [m |-> (key :> value) @@ m, actual |-> value, loaded |-> FALSE]

(***************************************************************************)
(* K8sNotificationSource.Extractors: the TypedName strings of the stored   *)
(* extractors, one per entry of the map (Range order is unspecified, so    *)
(* the result is the bag of its elements).                                 *)
(***************************************************************************)
ExtractorsOf(m) ==
    LET keys == {k \in DOMAIN m : IsNotificationExtractor(m[k])}
        strs == {TypedNameString(m[k].tn) : k \in keys}
    IN  [s \in strs |->
            Cardinality({k \in keys : TypedNameString(m[k].tn) = s})]

Extractors == ExtractorsOf(extractors)

\* A registry keyed by the whole TypedName instead of the name.
ExtractorKeyTypedName(ext) == TypedNameString(ext.tn)

\* The key AddExtractor stores an extractor under: nExt.TypedName().Name.
ExtractorKey(ext) == ext.tn.Name

(***************************************************************************)
(* The body of K8sNotificationSource.AddExtractor.  Its one access to      *)
(* shared state is the LoadOrStore, so the body takes effect at once.      *)
(***************************************************************************)
AddEffect(ext) ==
    /\ addArg' = ext
    /\ addPre' = extractors
    /\ IF ext = Nil
       THEN /\ addErr' = ErrNilExtractor
            /\ addErrArgs' = << >>
            /\ UNCHANGED <<extractors, regAt, stored>>
       ELSE IF ~IsNotificationExtractor(ext)
       THEN /\ addErr' = ErrNotNotificationExtractor
            /\ addErrArgs' = <<TypedNameString(ext.tn)>>
            /\ UNCHANGED <<extractors, regAt, stored>>
       ELSE LET r == LoadOrStore(extractors, ExtractorKey(ext), ext)
            IN  /\ extractors' = r.m
                /\ IF r.loaded
                   THEN /\ addErr' = ErrDuplicate
                        /\ addErrArgs' = <<TypedNameString(ext.tn),
                                           TypedNameString(SourceTypedName)>>
                        /\ UNCHANGED <<regAt, stored>>
                   ELSE /\ addErr' = NoErr
                        /\ addErrArgs' = << >>
                        /\ regAt' = (ExtractorKey(ext) :> notifyCount) @@ regAt
                        /\ stored' = (ExtractorKey(ext) :> ext) @@ stored
    /\ UNCHANGED <<srcVars, notifyVars, ctxVars, flagVars>>

(***************************************************************************)
(* K8sNotificationSource.AddExtractor, called by one caller at a time.     *)
(***************************************************************************)
AddExtractor(ext) == AddEffect(ext) /\ UNCHANGED raceVars

\* An AddExtractor that looks the name up when the call begins and stores the
\* extractor later, in two accesses to the map.
AddCallEndCheckThenStore(g) ==
    /\ gpc[g] = "called"
    /\ IF IsNotificationExtractor(garg[g])
          /\ ExtractorKey(garg[g]) \notin DOMAIN gseen[g]
       THEN /\ extractors' = StoreOverwrites(extractors, ExtractorKey(garg[g]),
                                             garg[g]).m
            /\ addArg' = garg[g]
            /\ addPre' = extractors
            /\ addErr' = NoErr
            /\ addErrArgs' = << >>
            /\ regAt' = (ExtractorKey(garg[g]) :> notifyCount) @@ regAt
            /\ stored' = (ExtractorKey(garg[g]) :> garg[g]) @@ stored
            /\ UNCHANGED <<srcVars, notifyVars, ctxVars, flagVars>>
       ELSE AddEffect(garg[g])
    /\ gret' = [gret EXCEPT ![g] = addErr']
    /\ gpc' = [gpc EXCEPT ![g] = "returned"]
    /\ UNCHANGED <<garg, gseen>>

(***************************************************************************)
(* AddExtractor called from several goroutines: a call begins (the         *)
(* registry as it is then is noted), and later its body runs and the call  *)
(* returns; the calls of other goroutines may begin and end in between.    *)
(***************************************************************************)
AddCallBegin(g, ext) ==
    /\ gpc[g] # "called"
    /\ gpc' = [gpc EXCEPT ![g] = "called"]
    /\ garg' = [garg EXCEPT ![g] = ext]
    /\ gseen' = [gseen EXCEPT ![g] = extractors]
    /\ gret' = [gret EXCEPT ![g] = NotCalled]
    /\ UNCHANGED <<srcVars, extractors, addVars, notifyVars, regAt, ctxVars,
                   flagVars>>

AddCallEnd(g) ==
    /\ gpc[g] = "called"
    /\ AddEffect(garg[g])
    /\ gret' = [gret EXCEPT ![g] = addErr']
    /\ gpc' = [gpc EXCEPT ![g] = "returned"]
    /\ UNCHANGED <<garg, gseen>>

\* A Join that keeps the first error only.
JoinFirst(es) ==
    LET nonNil == SelectSeq(es, LAMBDA e : e # NoErr)
    IN  IF Len(nonNil) = 0 THEN NoErr ELSE [joined |-> <<nonNil[1]>>]

(***************************************************************************)
(* errors.Join: nil when no error is given, otherwise one error wrapping   *)
(* the given errors in order.                                              *)
(***************************************************************************)
Join(es) ==
    LET nonNil == SelectSeq(es, LAMBDA e : e # NoErr)
    IN  IF Len(nonNil) = 0 THEN NoErr ELSE [joined |-> nonNil]

(***************************************************************************)
(* Notify, entry: the logger is derived, errs is nil, Range begins.  The   *)
(* caller passes the event by value; Object points at the copy the         *)
(* framework core made for this delivery (a fresh address).  pc is where   *)
(* the call goes next.                                                     *)
(***************************************************************************)
BeginEffect(type, content, pc) ==
    /\ npc = "idle"
    /\ notifyCount < MaxNotify
    /\ notifyCount' = notifyCount + 1
    /\ event' = [Type |-> type, Object |-> notifyCount + 1]
    /\ heap' = ((notifyCount + 1) :> content)
    /\ given' = [Type |-> type, Object |-> content]
    /\ sameRun' = IF sameRun > 0 /\ given = [Type |-> type, Object |-> content]
                  THEN sameRun + 1 ELSE 1
    /\ startKeys' = DOMAIN extractors
    /\ visited' = {}
    /\ errs' = << >>
    /\ calls' = << >>
    /\ logOut' = << >>
    /\ notifyOut' = "running"
    /\ npc' = pc
    /\ UNCHANGED <<srcVars, extractors, addVars, recv, regAt, ctxVars,
                   raceVars, flagVars>>

\* Notify with a filter in front of Range: an event equal to the one of the
\* call before is dropped, no extractor is called.
NotifyBeginDedup(type, content) ==
    BeginEffect(type, content,
                IF sameRun > 0 /\ given = [Type |-> type, Object |-> content]
                THEN "ranged" ELSE "ranging")

NotifyBegin(type, content) == BeginEffect(type, content, "ranging")

(***************************************************************************)
(* NotificationExtractor.ExtractNotification, as the source sees it: the   *)
(* plugin reads the event, may write through event.Object, and returns an  *)
(* error or nil.  result and written are the plugin's choice.              *)
(***************************************************************************)
ExtractNotification(ext, ev, result, written) ==
    /\ calls' = Append(calls, [ext |-> ext, n |-> notifyCount,
                               Type |-> ev.Type, Object |-> ev.Object,
                               seen |-> heap[ev.Object], err |-> result])
    /\ recv' = [recv EXCEPT ![ext] = Append(@, notifyCount)]
    /\ heap' = [heap EXCEPT ![ev.Object] = written]

(***************************************************************************)
(* The caller of Notify cancels the context it hands to Notify, before a   *)
(* call or while one is in progress.  A cancelled context stays cancelled. *)
(***************************************************************************)
CancelCtx ==
    /\ ~ctxDone
    /\ ctxDone' = TRUE
    /\ UNCHANGED <<srcVars, extractors, addVars, notifyVars, regAt, active,
                   collectOut, raceVars, flagVars>>

\* A fan-out that hands each extractor its call without waiting for the call
\* before it to return.
NotifyCallAsync(key) ==
    /\ npc = "ranging"
    /\ key \in DOMAIN extractors
    /\ key \notin visited
    /\ key \notin active
    /\ active' = active \cup {key}
    /\ UNCHANGED <<srcVars, extractors, addVars, notifyVars, regAt, ctxDone,
                   collectOut, raceVars, flagVars>>

(***************************************************************************)
(* Notify, entry into one callback of extractors.Range: Range calls back   *)
(* for a key it has not visited, and only after the callback before it     *)
(* has returned; the callback calls ExtractNotification on the value.      *)
(***************************************************************************)
NotifyCall(key) ==
    /\ npc = "ranging"
    /\ key \in DOMAIN extractors
    /\ key \notin visited
    /\ active = {}
    /\ active' = {key}
    /\ UNCHANGED <<srcVars, extractors, addVars, notifyVars, regAt, ctxDone,
                   collectOut, raceVars, flagVars>>

\* A callback that stops the iteration at the first extractor that fails.
RangeStopsOnError(err) == err = NoErr

\* Whether the Range callback of Notify asks Range to go on after a call
\* that returned err: it returns true on every path.
RangeContinues(err) == TRUE

(***************************************************************************)
(* Notify, one callback of extractors.Range, from the return of its        *)
(* ExtractNotification call on.  Range calls back once for a key, with the *)
(* value stored under it; a key stored while Range runs may or may not be  *)
(* visited.  VisitEffect is the callback; NotifyVisit adds that it is the  *)
(* callback Range has entered, for a key it calls back for once.           *)
(***************************************************************************)
VisitEffect(key, result, written) ==
    /\ npc = "ranging"
    /\ key \in DOMAIN extractors
    /\ visited' = visited \cup {key}
    /\ active' = active \ {key}
    /\ LET val == extractors[key]
       IN  IF ~IsNotificationExtractor(val)
           THEN /\ result = NoErr
                /\ written = heap[event.Object]
                /\ UNCHANGED <<calls, recv, heap, errs, npc>>
           ELSE /\ ExtractNotification(val, event, result, written)
                /\ errs' = IF result # NoErr
                           THEN Append(errs, "extractor "
                                               \o TypedNameString(val.tn)
                                               \o ": " \o result)
                           ELSE errs
                /\ npc' = IF RangeContinues(result) THEN "ranging" ELSE "ranged"
    /\ UNCHANGED <<srcVars, extractors, addVars, event, startKeys, logOut,
                   notifyOut, notifyCount, given, sameRun, regAt, ctxDone,
                   collectOut, raceVars, flagVars>>

\* A Range that may call back for a key it has already visited.
NotifyVisitRepeats(key, result, written) == VisitEffect(key, result, written)

NotifyVisit(key, result, written) ==
    /\ key \notin visited
    /\ key \in active
    /\ VisitEffect(key, result, written)

\* A Range whose callback gives up once the context is cancelled.
RangeDoneOnCancel ==
    /\ active = {}
    /\ \/ npc = "ranged"
       \/ npc = "ranging" /\ (startKeys \subseteq visited \/ ctxDone)

\* A Range that counts its callbacks and ends after as many as the map held
\* keys when it began.
RangeDoneByCount ==
    /\ active = {}
    /\ \/ npc = "ranged"
       \/ npc = "ranging" /\ Cardinality(visited) >= Cardinality(startKeys)

\* sync.Map.Range has returned: no callback is running, and the callback
\* stopped it or every key the map held when Range began has been visited.
\* The context plays no part.
RangeDone ==
    /\ active = {}
    /\ npc = "ranged" \/ (npc = "ranging" /\ startKeys \subseteq visited)

\* A Notify that hands the joined errors back to its caller.
NotifyResultPropagates(es) == Join(es)

\* What Notify hands back to its caller: the method has no result.
NotifyResult(es) == Void

(***************************************************************************)
(* Notify, after Range: Range ends once every key it began with has been   *)
(* visited (or the callback stopped it); the joined errors are logged when *)
(* there are any, and the call returns.                                    *)
(***************************************************************************)
ReturnEffect ==
    /\ logOut' = IF Len(errs) > 0
                 THEN <<[err |-> Join(errs),
                         msg |-> "extractor(s) failed processing notification",
                         gvk |-> gvk, eventType |-> event.Type]>>
                 ELSE << >>
    /\ notifyOut' = NotifyResult(errs)
    /\ npc' = "idle"
    /\ heap' = << >>
    /\ event' = NoEvent
    /\ UNCHANGED <<srcVars, extractors, addVars, startKeys, visited, errs,
                   notifyCount, given, sameRun, calls, recv, regAt, ctxVars,
                   raceVars, flagVars>>

\* A Notify that may return while Range still has keys to visit.
NotifyReturnEarly == npc \in {"ranging", "ranged"} /\ ReturnEffect

NotifyReturn == RangeDone /\ ReturnEffect

\* The endpoints a poller may hand to Collect (nil, or a pod's endpoint).
Endpoints == {"nil", "10.0.0.1:8000"}

\* A Collect that refuses to be polled.
CollectFails(target) ==
    /\ collectOut' = "collect not supported"
    /\ UNCHANGED <<srcVars, extractors, addVars, notifyVars, regAt, ctxDone,
                   active, raceVars, flagVars>>

(***************************************************************************)
(* K8sNotificationSource.Collect: ignores its context and its target and   *)
(* returns nil.                                                            *)
(***************************************************************************)
Collect(target) ==
    /\ collectOut' = NoErr
    /\ UNCHANGED <<srcVars, extractors, addVars, notifyVars, regAt, ctxDone,
                   active, raceVars, flagVars>>

Next ==
    \/ \E ext \in Plugins \cup {Nil} : AddExtractor(ext)
    \/ \E type \in EventTypes, content \in Contents : NotifyBegin(type, content)
    \/ \E key \in Names : NotifyCall(key)
    \/ \E key \in Names, result \in ExtractErrs, written \in Contents :
            NotifyVisit(key, result, written)
    \/ NotifyReturn

Spec == Init /\ [][Next]_vars

\* The source whose callers may also cancel the context they hand to Notify.
NextCtx == Next \/ CancelCtx

SpecCtx == Init /\ [][NextCtx]_vars

\* The source whose extractors are added by goroutines running concurrently.
NextRace ==
    \/ \E g \in Goroutines, ext \in Plugins \cup {Nil} : AddCallBegin(g, ext)
    \/ \E g \in Goroutines : AddCallEnd(g)

SpecRace == Init /\ [][NextRace]_vars

\* The source whose pollers may also call Collect.
NextCollect == Next \/ \E target \in Endpoints : Collect(target)

SpecCollect == Init /\ [][NextCollect]_vars


(***************************************************************************)
(* The flags of the program.  A Flag is {Name, DefValue, Usage,            *)
(* Deprecated, ReplacedBy}; vars maps flag names to pointers.  The lists   *)
(* and maps AddFlags is called with: well-formed ones, and one for each    *)
(* way a list and a map can fail to fit.                                   *)
(***************************************************************************)
FlagCertPath(deprecated) ==
    [Name |-> "cert-path", DefValue |-> GoString("/certs"),
     Usage |-> "directory of the serving certificate",
     Deprecated |-> deprecated,
     ReplacedBy |-> IF deprecated THEN "--tls-cert-dir" ELSE ""]
FlagSecureServing(deprecated) ==
    [Name |-> "secure-serving", DefValue |-> GoBool(TRUE),
     Usage |-> "serve over TLS", Deprecated |-> deprecated, ReplacedBy |-> ""]
FlagGrpcPort ==
    [Name |-> "grpc-port", DefValue |-> GoInt(9002),
     Usage |-> "port of the gRPC server", Deprecated |-> FALSE,
     ReplacedBy |-> ""]
FlagNoDefault ==
    [Name |-> "cert-path", DefValue |-> NilValue,
     Usage |-> "directory of the serving certificate", Deprecated |-> FALSE,
     ReplacedBy |-> ""]
FlagTimeout ==
    [Name |-> "timeout", DefValue |-> GoDuration(30),
     Usage |-> "time to wait for the server", Deprecated |-> FALSE,
     ReplacedBy |-> ""]
FlagTlsCertDir ==
    [Name |-> "tls-cert-dir", DefValue |-> GoString("/tls"),
     Usage |-> "directory of the serving certificate", Deprecated |-> FALSE,
     ReplacedBy |-> ""]
FlagRatio ==
    [Name |-> "ratio", DefValue |-> GoFloat(1),
     Usage |-> "sampling ratio", Deprecated |-> FALSE, ReplacedBy |-> ""]

FlagLists ==
    {<<FlagCertPath(d), FlagSecureServing(d)>> : d \in BOOLEAN}
    \cup {<<FlagCertPath(FALSE), FlagGrpcPort>>,
          <<FlagSecureServing(FALSE), FlagNoDefault>>,
          <<FlagCertPath(TRUE), FlagRatio>>,
          <<FlagCertPath(FALSE), FlagCertPath(TRUE)>>,
          <<FlagCertPath(TRUE), FlagTlsCertDir>>,
          <<FlagGrpcPort, FlagTimeout>>}

CertPathPtr == PointerTo("string", 1)
SecureServingPtr == PointerTo("bool", 2)
GrpcPortPtr == PointerTo("int", 3)
TimeoutPtr == PointerTo("time.Duration", 4)

VarMaps ==
    {("cert-path" :> CertPathPtr) @@ ("secure-serving" :> SecureServingPtr),
     ("cert-path" :> CertPathPtr) @@ ("grpc-port" :> GrpcPortPtr),
     ("cert-path" :> GrpcPortPtr) @@ ("secure-serving" :> SecureServingPtr),
     ("cert-path" :> CertPathPtr) @@ ("ratio" :> GrpcPortPtr),
     ("cert-path" :> CertPathPtr),
     ("cert-path" :> CertPathPtr) @@ ("tls-cert-dir" :> CertPathPtr),
     ("grpc-port" :> GrpcPortPtr) @@ ("timeout" :> TimeoutPtr)}

\* The names fs.Set and the getters are called with (a string, a bool and a
\* duration flag), and the strings Set is given: "0" parses as a bool and as
\* a duration, "x" as neither.
FlagNames == {"cert-path", "secure-serving", "timeout"}
SetStrings == {"0", "x"}

\* The types AddFlags has a case for.
SupportedTypes == {"string", "int", "bool", "time.Duration"}

\* typeError.
typeError(name, got, expected) ==
    Errorf("flag %q: variable must be *%s, got %T", <<name, expected, got.type>>)

\* The flag.Value fs.StringVar, fs.IntVar, fs.BoolVar and fs.DurationVar make
\* for a variable, and the wrapper AddFlags puts around it.
NewFlagValue(t, p) ==
    [impl |-> CASE t = "string" -> "stringValue"
                [] t = "int" -> "intValue"
                [] t = "bool" -> "boolValue"
                [] OTHER -> "durationValue",
     ptr |-> p]
DeprecatedValue(value, name, replacedBy) ==
    [impl |-> "deprecatedValue", Value |-> value, warned |-> FALSE,
     name |-> name, replacedBy |-> replacedBy]

\* Everything that is not a flag: left alone by the flag functions.
sourceVars == <<srcVars, extractors, addVars, notifyVars, regAt, ctxVars,
                raceVars>>

\* The record of a call is kept until the next call returns.
NoAddFlagsCall ==
    /\ flagsArg' = << >>
    /\ varsArg' = << >>
    /\ flagsErr' = Errorf(NotCalled, << >>)
    /\ fsPre' = << >>
    /\ memPre' = ZeroMem

(***************************************************************************)
(* AddFlags, one round of its loop, on st = [fs, mem, out, err, panic]:    *)
(* the checks, the assignment of the default through the pointer, the      *)
(* registration, the wrapping of a deprecated flag's Value.  FlagSet.Var   *)
(* panics on a name that is already defined, after writing the message to  *)
(* fs.Output(), and on a name FlagSet.undef holds.                         *)
(***************************************************************************)
AddOneFlag(st, f, varMap) ==
    IF f.DefValue = NilValue
    THEN [st EXCEPT !.err =
            Errorf("flag %q must have a non-nil default value", <<f.Name>>)]
    ELSE IF f.Name \notin DOMAIN varMap
    THEN [st EXCEPT !.err =
            Errorf("variable pointer for flag %q not provided", <<f.Name>>)]
    ELSE IF f.DefValue.type \notin SupportedTypes
    THEN [st EXCEPT !.err = Errorf("unsupported flag type for %q: %T",
                                   <<f.Name, f.DefValue.type>>)]
    ELSE IF varMap[f.Name].type # "*" \o f.DefValue.type
    THEN [st EXCEPT !.err = typeError(f.Name, varMap[f.Name], f.DefValue.type)]
    ELSE LET p == varMap[f.Name]
             assigned == [st.mem EXCEPT ![p.addr] = f.DefValue]
             value == NewFlagValue(f.DefValue.type, p)
         IN  IF f.Name \in DOMAIN st.fs
             THEN [st EXCEPT
                     !.mem = assigned,
                     !.out = Append(st.out,
                                    Errorf("flag redefined: %s\n", <<f.Name>>)),
                     !.panic = Errorf("flag redefined: %s", <<f.Name>>)]
             ELSE IF f.Name \in undef
             THEN [st EXCEPT
                     !.mem = assigned,
                     !.panic = Errorf("flag %s set at %s before being defined",
                                      <<f.Name, "file:line">>)]
             ELSE [st EXCEPT
                     !.fs = (f.Name :>
                               IF f.Deprecated
                               THEN DeprecatedValue(value, f.Name, f.ReplacedBy)
                               ELSE value) @@ st.fs,
                     !.mem = assigned]

RECURSIVE AddFlagsFrom(_, _, _, _)
AddFlagsFrom(st, flags, varMap, i) ==
    IF i > Len(flags)
    THEN st
    ELSE LET next == AddOneFlag(st, flags[i], varMap)
         IN  IF next.err # NilError \/ next.panic # NoPanic
             THEN next
             ELSE AddFlagsFrom(next, flags, varMap, i + 1)

\* An AddFlags that compares the counts after its loop instead of before it.
AddFlagsCountsLast(flags, varMap) ==
    /\ panicMsg = NoPanic
    /\ flagsArg' = flags
    /\ varsArg' = varMap
    /\ fsPre' = fs
    /\ memPre' = mem
    /\ \E st \in {AddFlagsFrom([fs |-> fs, mem |-> mem, out |-> out,
                                 err |-> NilError, panic |-> NoPanic],
                                flags, varMap, 1)} :
           /\ fs' = st.fs
           /\ mem' = st.mem
           /\ out' = st.out
           /\ panicMsg' = st.panic
           /\ flagsErr' =
                 IF st.panic # NoPanic THEN NoReturn
                 ELSE IF st.err = NilError
                         /\ Len(flags) # Cardinality(DOMAIN varMap)
                 THEN Errorf("mismatch flags (%d) and vars (%d) count",
                             <<ToString(Len(flags)),
                               ToString(Cardinality(DOMAIN varMap))>>)
                 ELSE st.err
    /\ setOut' = NoCall
    /\ getOut' = NoCall
    /\ UNCHANGED <<lastSet, undef, tracksUndef, sourceVars>>

(***************************************************************************)
(* AddFlags(fs, flags, vars), on the FlagSet as it is: new, or holding the *)
(* flags of earlier calls.  A call that panics does not return, and the    *)
(* program ends there.                                                     *)
(***************************************************************************)
AddFlags(flags, varMap) ==
    /\ panicMsg = NoPanic
    /\ flagsArg' = flags
    /\ varsArg' = varMap
    /\ fsPre' = fs
    /\ memPre' = mem
    /\ IF Len(flags) # Cardinality(DOMAIN varMap)
       THEN /\ flagsErr' = Errorf("mismatch flags (%d) and vars (%d) count",
                                  <<ToString(Len(flags)),
                                    ToString(Cardinality(DOMAIN varMap))>>)
            /\ UNCHANGED <<fs, mem, out, panicMsg>>
       ELSE \E st \in {AddFlagsFrom([fs |-> fs, mem |-> mem, out |-> out,
                                      err |-> NilError, panic |-> NoPanic],
                                     flags, varMap, 1)} :
                /\ fs' = st.fs
                /\ mem' = st.mem
                /\ out' = st.out
                /\ panicMsg' = st.panic
                /\ flagsErr' = IF st.panic # NoPanic THEN NoReturn ELSE st.err
    /\ setOut' = NoCall
    /\ getOut' = NoCall
    /\ UNCHANGED <<lastSet, undef, tracksUndef, sourceVars>>

\* strconv.ParseBool and strconv.Atoi / time.ParseDuration, on the strings
\* they accept among those Set is given.
ParseBool ==
    [x \in {"1", "t", "T", "TRUE", "true", "True"} |-> TRUE]
    @@ [x \in {"0", "f", "F", "FALSE", "false", "False"} |-> FALSE]
ParseInt == ("0" :> 0)

\* Set of the flag package's own values: the string is parsed and the result
\* stored through the pointer.  The store happens whether or not the string
\* parses: on a syntax error the parsers return the zero value, and that is
\* what the variable then holds, next to the error "parse error".
SetInner(value, x, m) ==
    CASE value.impl = "stringValue" ->
            [mem |-> [m EXCEPT ![value.ptr.addr] = GoString(x)],
             err |-> NilError]
      [] value.impl = "boolValue" ->
            IF x \in DOMAIN ParseBool
            THEN [mem |-> [m EXCEPT ![value.ptr.addr] = GoBool(ParseBool[x])],
                  err |-> NilError]
            ELSE [mem |-> [m EXCEPT ![value.ptr.addr] = GoBool(FALSE)],
                  err |-> Errorf("parse error", << >>)]
      [] value.impl = "intValue" ->
            IF x \in DOMAIN ParseInt
            THEN [mem |-> [m EXCEPT ![value.ptr.addr] = GoInt(ParseInt[x])],
                  err |-> NilError]
            ELSE [mem |-> [m EXCEPT ![value.ptr.addr] = GoInt(0)],
                  err |-> Errorf("parse error", << >>)]
      [] OTHER ->
            IF x \in DOMAIN ParseInt
            THEN [mem |-> [m EXCEPT ![value.ptr.addr] =
                              GoDuration(ParseInt[x])],
                  err |-> NilError]
            ELSE [mem |-> [m EXCEPT ![value.ptr.addr] = GoDuration(0)],
                  err |-> Errorf("parse error", << >>)]

\* A wrapper whose Set warns and forgets to delegate.
ValueSetWarnsOnly(value, x, m) ==
    IF value.impl = "deprecatedValue"
    THEN [value |-> [value EXCEPT !.warned = TRUE], mem |-> m,
          err |-> NilError, written |-> << >>]
    ELSE [value |-> value, mem |-> SetInner(value, x, m).mem,
          err |-> SetInner(value, x, m).err, written |-> << >>]

\* A wrapper that warns on every successful Set.
ValueSetWarnsEveryTime(value, x, m) ==
    IF value.impl = "deprecatedValue"
    THEN LET r == SetInner(value.Value, x, m)
         IN  [value |-> [value EXCEPT !.warned = TRUE],
              mem |-> r.mem,
              err |-> r.err,
              written |->
                IF r.err # NilError THEN << >>
                ELSE <<Errorf("Warning: --%s is deprecated and will be removed in an upcoming release.\n",
                              <<value.name>>)>>]
    ELSE [value |-> value, mem |-> SetInner(value, x, m).mem,
          err |-> SetInner(value, x, m).err, written |-> << >>]

(***************************************************************************)
(* Value.Set.  deprecatedValue.Set delegates to the wrapped Value and, the *)
(* first time that succeeds, writes the warning.                           *)
(***************************************************************************)
ValueSet(value, x, m) ==
    IF value.impl = "deprecatedValue"
    THEN LET r == SetInner(value.Value, x, m)
             warn == r.err = NilError /\ ~value.warned
         IN  [value |-> IF warn THEN [value EXCEPT !.warned = TRUE] ELSE value,
              mem |-> r.mem,
              err |-> r.err,
              written |->
                IF ~warn THEN << >>
                ELSE IF value.replacedBy # ""
                THEN <<Errorf("Warning: --%s is deprecated; use %s instead.\n",
                              <<value.name, value.replacedBy>>)>>
                ELSE <<Errorf("Warning: --%s is deprecated and will be removed in an upcoming release.\n",
                              <<value.name>>)>>]
    ELSE [value |-> value, mem |-> SetInner(value, x, m).mem,
          err |-> SetInner(value, x, m).err, written |-> << >>]

(***************************************************************************)
(* FlagSet.Set(name, x), as flag parsing calls it: the flag is looked up   *)
(* and its Value is Set.  For a name that is not defined the error is      *)
(* returned and, where the flag package keeps FlagSet.undef, the name is   *)
(* noted there.                                                            *)
(***************************************************************************)
FlagSetSet(name, x) ==
    /\ panicMsg = NoPanic
    /\ IF name \notin DOMAIN fs
       THEN /\ setOut' = [fn |-> "Set", name |-> name, x |-> x,
                          err |-> Errorf("no such flag -%v", <<name>>)]
            /\ undef' = IF tracksUndef THEN undef \cup {name} ELSE undef
            /\ UNCHANGED <<fs, mem, out, lastSet>>
       ELSE \E r \in {ValueSet(fs[name], x, mem)} :
                /\ fs' = [fs EXCEPT ![name] = r.value]
                /\ mem' = r.mem
                /\ out' = out \o r.written
                /\ setOut' = [fn |-> "Set", name |-> name, x |-> x,
                              err |-> r.err]
                /\ lastSet' = IF r.err = NilError
                              THEN (name :> x) @@ lastSet
                              ELSE lastSet
                /\ UNCHANGED undef
    /\ NoAddFlagsCall
    /\ getOut' = NoCall
    /\ UNCHANGED <<tracksUndef, panicMsg, sourceVars>>

\* The pointer a flag's Value holds, through the wrapper if there is one.
FlagPtr(value) ==
    IF value.impl = "deprecatedValue" THEN value.Value.ptr ELSE value.ptr

\* Whether a Value has the Get method of flag.Getter: the flag package's own
\* values have it; deprecatedValue embeds the flag.Value interface and so has
\* String and Set only.
ImplementsGetter(value) == value.impl # "deprecatedValue"

\* Get of the flag package's own values: the value of the variable (for a
\* stringValue string(*s), for a boolValue bool(*b)), not a pointer to it.
ValueGet(value, m) == m[value.ptr.addr]

(***************************************************************************)
(* GetStringFlagValue (t = "string") and GetBoolFlagValue (t = "bool"):    *)
(* Lookup, the assertion to flag.Getter, Get, the assertion to *t.         *)
(***************************************************************************)
GetFlagValue(t, zero, name) ==
    IF name \notin DOMAIN fs
    THEN [val |-> zero, err |-> Errorf("flag not found: %s", <<name>>)]
    ELSE IF ~ImplementsGetter(fs[name])
    THEN [val |-> zero,
          err |-> Errorf("flag %s value does not support flag.Getter interface",
                         <<name>>)]
    ELSE LET underlying == ValueGet(fs[name], mem)
         IN  IF underlying.type = "*" \o t
             THEN [val |-> mem[underlying.addr], err |-> NilError]
             ELSE [val |-> zero,
                   err |-> Errorf("flag %s is not a " \o t \o " type, got %T",
                                  <<name, underlying.type>>)]

\* The value of the variable bound to the flag name, nil if there is none.
BoundValue(name) ==
    IF name \in DOMAIN fs THEN mem[FlagPtr(fs[name]).addr] ELSE NilValue

GetStringFlagValue(name) ==
    /\ panicMsg = NoPanic
    /\ getOut' = [fn |-> "GetStringFlagValue", name |-> name,
                  val |-> GetFlagValue("string", GoString(""), name).val,
                  err |-> GetFlagValue("string", GoString(""), name).err,
                  bound |-> BoundValue(name)]
    /\ NoAddFlagsCall
    /\ setOut' = NoCall
    /\ UNCHANGED <<fs, mem, out, lastSet, undef, tracksUndef, panicMsg,
                   sourceVars>>

GetBoolFlagValue(name) ==
    /\ panicMsg = NoPanic
    /\ getOut' = [fn |-> "GetBoolFlagValue", name |-> name,
                  val |-> GetFlagValue("bool", GoBool(FALSE), name).val,
                  err |-> GetFlagValue("bool", GoBool(FALSE), name).err,
                  bound |-> BoundValue(name)]
    /\ NoAddFlagsCall
    /\ setOut' = NoCall
    /\ UNCHANGED <<fs, mem, out, lastSet, undef, tracksUndef, panicMsg,
                   sourceVars>>

\* The flags of a program: registered, set while the command line is parsed,
\* read back.
NextFlags ==
    \/ \E flags \in FlagLists, varMap \in VarMaps : AddFlags(flags, varMap)
    \/ \E name \in FlagNames, x \in SetStrings : FlagSetSet(name, x)
    \/ \E name \in FlagNames : GetStringFlagValue(name)
    \/ \E name \in FlagNames : GetBoolFlagValue(name)

SpecFlags == InitFlags /\ [][NextFlags]_vars

(***************************************************************************)
(* Helpers of the properties.                                              *)
(***************************************************************************)
\* The entries Extractors() reports for the plugins named name.
EntriesFor(name) ==
    LET strs == {TypedNameString([Type |-> t, Name |-> name]) : t \in Types}
    IN  Cardinality({s \in strs \cap DOMAIN Extractors : Extractors[s] = 1})
        + 2 * Cardinality({s \in strs \cap DOMAIN Extractors : Extractors[s] > 1})

\* The calls of the current Notify made to the extractor ext.
CallsTo(ext) == {i \in 1..Len(calls) : calls[i].ext = ext}

\* A Notify call has run to its end and no other has begun.
NotifyDone == npc = "idle" /\ notifyCount > 0

(***************************************************************************)
(* C1.  An AddExtractor call whose extractor's name is already registered  *)
(* returns the duplicate error and leaves the registry as it was: the      *)
(* extractor stored first stays stored, Extractors() is unchanged and      *)
(* reports exactly one entry for the name, and every call Notify makes     *)
(* goes to the extractor stored under its name.                            *)
(***************************************************************************)
C1_DuplicateRejected ==
    /\ (addArg \in NotifPlugins /\ addArg.tn.Name \in DOMAIN addPre)
        => /\ addErr = ErrDuplicate
           /\ extractors = addPre
           /\ Extractors = ExtractorsOf(addPre)
           /\ EntriesFor(addArg.tn.Name) = 1
    /\ \A i \in 1..Len(calls) :
        /\ calls[i].ext.tn.Name \in DOMAIN extractors
        /\ extractors[calls[i].ext.tn.Name] = calls[i].ext

\* A second extractor was refused under a name already taken by another one,
\* and Notify has dispatched to the one stored first.
C1_Witness ==
    /\ addErr = ErrDuplicate
    /\ addArg.tn.Name \in DOMAIN extractors
    /\ extractors[addArg.tn.Name] # addArg
    /\ \E i \in 1..Len(calls) : calls[i].ext = extractors[addArg.tn.Name]

(***************************************************************************)
(* C2.  AddExtractor of a plugin that implements only the base Extractor   *)
(* returns the capability-mismatch error and changes neither the registry  *)
(* nor Extractors(); every registered entry is a NotificationExtractor.    *)
(***************************************************************************)
C2_BaseExtractorRejected ==
    /\ addArg \in BasePlugins
        => /\ addErr = ErrNotNotificationExtractor
           /\ extractors = addPre
           /\ Extractors = ExtractorsOf(addPre)
    /\ \A k \in DOMAIN extractors : extractors[k] \in NotifPlugins

\* A base Extractor was refused by a source that holds an extractor.
C2_Witness ==
    /\ addArg \in BasePlugins
    /\ addErr = ErrNotNotificationExtractor
    /\ DOMAIN extractors # {}

(***************************************************************************)
(* C3.  Events passed to Notify one after another reach every extractor    *)
(* in that order: an extractor stored when r Notify calls had begun has    *)
(* been called with the events r+1, r+2, ... up to the last one delivered  *)
(* to it, each once and in increasing order (before them at most the       *)
(* event r, if it was stored while Notify number r was running).           *)
(***************************************************************************)
\* The number of the last event the extractor under key k has been sent.
LastSent(k) ==
    IF npc = "idle" \/ k \in visited THEN notifyCount ELSE notifyCount - 1

C3_DeliveryInArrivalOrder ==
    \A k \in DOMAIN extractors :
        LET p == extractors[k]
            r == regAt[k]
            after == SelectSeq(recv[p], LAMBDA n : n > r)
        IN  /\ \A i \in 1..(Len(recv[p]) - 1) : recv[p][i] < recv[p][i + 1]
            /\ \A i \in 1..Len(recv[p]) : recv[p][i] >= r
            /\ Len(after) = (IF LastSent(k) > r THEN LastSent(k) - r ELSE 0)
            /\ \A i \in 1..Len(after) : after[i] = r + i

\* Two events were passed in turn to a source with two extractors stored
\* beforehand, and both extractors were called with the first, then the second.
C3_Witness ==
    /\ NotifyDone
    /\ notifyCount >= 2
    /\ Cardinality(DOMAIN extractors) = 2
    /\ \A k \in DOMAIN extractors :
        regAt[k] = 0 /\ SubSeq(recv[extractors[k]], 1, 2) = <<1, 2>>

(***************************************************************************)
(* C4.  Isolation: an extractor that returns an error does not end the     *)
(* fan-out; when Notify returns, every extractor stored before the call    *)
(* began has been called with the event, whichever was visited first.      *)
(***************************************************************************)
C4_FailureDoesNotStopFanOut ==
    (\E i \in 1..Len(calls) : calls[i].err # NoErr)
        => /\ npc # "ranged"
           /\ NotifyDone =>
                \A k \in startKeys : CallsTo(extractors[k]) # {}

\* The extractor visited first failed and the other one was still called.
C4_Witness ==
    /\ NotifyDone
    /\ Len(calls) = 2
    /\ calls[1].err # NoErr
    /\ calls[2].ext # calls[1].ext
    /\ calls[2].n = calls[1].n

(***************************************************************************)
(* C5.  A mutation an extractor makes to the Object of the event is not    *)
(* seen by the other extractors of the same Notify call: every one of      *)
(* them is handed the Object as it was when Notify was called.             *)
(***************************************************************************)
C5_MutationNotSeenByOthers ==
    \A j \in 1..Len(calls) :
        /\ calls[j].seen = given.Object
        /\ \A i \in 1..(j - 1) : calls[j].seen = calls[i].seen

(***************************************************************************)
(* C6.  Within one Notify call no extractor is called twice, a failed      *)
(* extraction is not retried, and when the call returns every extractor    *)
(* stored before it began has been called exactly once.                    *)
(***************************************************************************)
C6_ExactlyOncePerNotify ==
    /\ \A p \in NotifPlugins : Cardinality(CallsTo(p)) <= 1
    /\ \A i \in 1..Len(calls) : calls[i].n = notifyCount
    /\ NotifyDone =>
        \A k \in startKeys : Cardinality(CallsTo(extractors[k])) = 1

\* A Notify call with two extractors returned after one of them failed.
C6_Witness ==
    /\ NotifyDone
    /\ Cardinality(startKeys) = 2
    /\ \E i \in 1..Len(calls) : calls[i].err # NoErr
    /\ \A k \in startKeys : Cardinality(CallsTo(extractors[k])) = 1

(***************************************************************************)
(* C7.  Notify hands nothing back to its caller, also when every           *)
(* extractor fails; the failures end in the log, one record holding the    *)
(* joined errors of the call.                                              *)
(***************************************************************************)
FailedCalls == {i \in 1..Len(calls) : calls[i].err # NoErr}

C7_NotifyReturnsNothing ==
    NotifyDone =>
        /\ notifyOut = Void
        /\ IF FailedCalls = {}
           THEN logOut = << >>
           ELSE /\ Len(logOut) = 1
                /\ Len(logOut[1].err.joined) = Cardinality(FailedCalls)

\* Both extractors of the source failed, and Notify returned.
C7_Witness ==
    /\ NotifyDone
    /\ Len(calls) = 2
    /\ Cardinality(FailedCalls) = 2
    /\ Len(logOut) = 1

(***************************************************************************)
(* C8.  As claimed: AddExtractor reports a duplicate exactly when an       *)
(* extractor with the same TypedName (Type and Name) is registered.        *)
(***************************************************************************)
C8_KeyedByTypedName ==
    addArg \in NotifPlugins =>
        (addErr = ErrDuplicate
            <=> \E k \in DOMAIN addPre : addPre[k].tn = addArg.tn)

(***************************************************************************)
(* C8, amended.  The registry is keyed by Name alone: AddExtractor of a    *)
(* NotificationExtractor reports a duplicate exactly when an extractor     *)
(* with the same Name is registered, whatever its Type, and stores the     *)
(* extractor otherwise; extractors whose Names differ can both be stored.  *)
(***************************************************************************)
C8_KeyedByName ==
    addArg \in NotifPlugins =>
        LET taken == \E k \in DOMAIN addPre : addPre[k].tn.Name = addArg.tn.Name
        IN  /\ addErr = ErrDuplicate <=> taken
            /\ addErr = NoErr <=> ~taken
            /\ ~taken => /\ addArg.tn.Name \in DOMAIN extractors
                         /\ extractors[addArg.tn.Name] = addArg
            /\ \A k \in DOMAIN extractors : extractors[k].tn.Name = k

\* A second extractor whose TypedName differs from the stored one in Type only
\* was refused as a duplicate, beside an extractor stored under another name.
C8_Witness ==
    /\ addErr = ErrDuplicate
    /\ addArg.tn.Name \in DOMAIN extractors
    /\ extractors[addArg.tn.Name].tn.Type # addArg.tn.Type
    /\ Cardinality(DOMAIN extractors) = 2

(***************************************************************************)
(* C9.  Every ExtractNotification call of Notify(e) is handed the Type and *)
(* the Object contents Notify was given; a Delete event given a non-empty  *)
(* Object reaches every extractor with that non-empty Object.              *)
(***************************************************************************)
C9_EventHandedUnchanged ==
    \A i \in 1..Len(calls) :
        /\ calls[i].Type = given.Type
        /\ (given.Type = EventDelete /\ given.Object # {})
                => calls[i].seen # {}
        /\ calls[i].seen = given.Object

(***************************************************************************)
(* C10.  No deduplication: when the last k Notify calls were given the     *)
(* same event, every extractor stored before the first of them has been    *)
(* called k times for them, once per Notify call.                          *)
(***************************************************************************)
C10_NoDeduplication ==
    NotifyDone =>
        \A k \in DOMAIN extractors :
            regAt[k] <= notifyCount - sameRun =>
                LET p == extractors[k]
                IN  Cardinality({i \in 1..Len(recv[p]) :
                                    recv[p][i] > notifyCount - sameRun}) = sameRun

\* The same AddOrUpdate event was passed twice and the extractor got it twice.
C10_Witness ==
    /\ NotifyDone
    /\ sameRun >= 2
    /\ given.Type = EventAddOrUpdate
    /\ given.Object # {}
    /\ \E k \in DOMAIN extractors :
        regAt[k] = 0 /\ Len(recv[extractors[k]]) = notifyCount
(***************************************************************************)
(* C11.  Cancellation does not short-circuit dispatch: a Notify call whose *)
(* context is cancelled, before the call or while the fan-out is in        *)
(* progress, is never stopped by its callback, and when it has returned    *)
(* every extractor registered when it began has been called exactly once.  *)
(***************************************************************************)
C11_CancelDoesNotShortCircuit ==
    ctxDone =>
        /\ npc # "ranged"
        /\ NotifyDone =>
              \A k \in startKeys :
                  /\ k \in visited
                  /\ Cardinality(CallsTo(extractors[k])) = 1

\* A Notify call handed a cancelled context has returned after calling both
\* registered extractors.
C11_Witness ==
    /\ ctxDone
    /\ NotifyDone
    /\ Cardinality(startKeys) = 2
    /\ Len(calls) = 2

(***************************************************************************)
(* C12.  Within one Notify call the extractors are called one after the    *)
(* other and synchronously: at most one ExtractNotification call is in     *)
(* progress at any time, a call in progress belongs to the Notify call in  *)
(* progress, and when Notify has returned no call is left in progress and  *)
(* every extractor Range visited has had its call return.                  *)
(***************************************************************************)
C12_SequentialSynchronous ==
    /\ Cardinality(active) <= 1
    /\ active # {} => npc = "ranging" /\ active \cap visited = {}
    /\ NotifyDone =>
          /\ active = {}
          /\ \A k \in visited : CallsTo(extractors[k]) # {}

\* The call of one extractor has returned and the call of the next one is in
\* progress.
C12_Witness ==
    /\ Cardinality(active) = 1
    /\ Len(calls) = 1
    /\ \A k \in active : calls[1].ext # extractors[k]

(***************************************************************************)
(* C13.  Collect is a no-op in every state and for every target: it        *)
(* returns no error, calls no extractor, and leaves the registry, the GVK, *)
(* the TypedName and the Notify call in progress as they were.             *)
(***************************************************************************)
C13_CollectIsNoOp ==
    [][\A target \in Endpoints :
          Collect(target) =>
              /\ collectOut' = NoErr
              /\ UNCHANGED <<extractors, gvk, typedName, regAt>>
              /\ UNCHANGED <<calls, recv, active, visited, errs, logOut>>
              /\ UNCHANGED <<npc, event, heap, notifyOut>>]_vars

\* Collect has returned on a source that holds two extractors and has
\* dispatched an event to them.
C13_Witness ==
    /\ collectOut = NoErr
    /\ Cardinality(DOMAIN extractors) = 2
    /\ Len(calls) = 2

(***************************************************************************)
(* C14.  The resource kind is fixed at construction: after any sequence of *)
(* AddExtractor, Notify, Collect and Extractors calls, GVK() is the GVK    *)
(* that was passed to NewK8sNotificationSource and TypedName() is the type *)
(* and name that were passed.                                              *)
(***************************************************************************)
C14_KindFixedAtConstruction ==
    /\ GVK = PodGVK
    /\ SourceTypedName = [Type |-> PluginType, Name |-> PluginName]

\* The source has stored an extractor, refused another, dispatched two events
\* and been polled, and still reports the kind it was constructed with.
C14_Witness ==
    /\ GVK = PodGVK
    /\ DOMAIN Extractors # {}
    /\ addErr = ErrDuplicate
    /\ notifyCount = 2 /\ NotifyDone /\ calls # << >>
    /\ collectOut = NoErr

(***************************************************************************)
(* C17.  Insert-if-absent is atomic: when two AddExtractor calls for       *)
(* NotificationExtractors of the same name run concurrently (both began    *)
(* while the name was free), exactly one returns nil and the other the     *)
(* duplicate error, and the registry holds the extractor of the call that  *)
(* returned nil.                                                           *)
(***************************************************************************)
C17_AtomicInsertIfAbsent ==
    \A g, h \in Goroutines :
        ( /\ g # h
          /\ gpc[g] = "returned" /\ gpc[h] = "returned"
          /\ IsNotificationExtractor(garg[g])
          /\ IsNotificationExtractor(garg[h])
          /\ garg[g].tn.Name = garg[h].tn.Name
          /\ garg[g].tn.Name \notin DOMAIN gseen[g]
          /\ garg[h].tn.Name \notin DOMAIN gseen[h] )
        => /\ {gret[g], gret[h]} = {NoErr, ErrDuplicate}
           /\ gret[g] = NoErr => extractors[garg[g].tn.Name] = garg[g]
           /\ gret[h] = NoErr => extractors[garg[h].tn.Name] = garg[h]

\* Two goroutines raced to add different extractors of one name; the first
\* won and the second was refused.
C17_Witness ==
    /\ gpc["g1"] = "returned" /\ gpc["g2"] = "returned"
    /\ garg["g1"] \in NotifPlugins /\ garg["g2"] \in NotifPlugins
    /\ garg["g1"] # garg["g2"]
    /\ garg["g1"].tn.Name = garg["g2"].tn.Name
    /\ garg["g1"].tn.Name \notin DOMAIN gseen["g1"]
    /\ garg["g2"].tn.Name \notin DOMAIN gseen["g2"]
    /\ gret["g1"] = NoErr /\ gret["g2"] = ErrDuplicate
    /\ extractors[garg["g1"].tn.Name] = garg["g1"]

(***************************************************************************)
(* C18.  Registration racing with dispatch is safe.  When extractors are   *)
(* added while a Notify call is in progress, every extractor registered    *)
(* before that call began is still called exactly once with its event, an  *)
(* extractor added since is called with it at most once, and every         *)
(* extractor is called for every event whose Notify call began after its   *)
(* AddExtractor returned.                                                  *)
(***************************************************************************)
C18_RegistrationDuringDispatch ==
    /\ NotifyDone =>
          \A k \in startKeys :
              \E i \in 1..Len(calls) :
                  /\ CallsTo(extractors[k]) = {i}
                  /\ calls[i].n = notifyCount
                  /\ calls[i].Type = given.Type
    /\ \A k \in DOMAIN extractors \ startKeys :
          Cardinality(CallsTo(extractors[k])) <= 1
    /\ \A k \in DOMAIN extractors :
          \A n \in (regAt[k] + 1)..LastSent(k) :
              \E i \in 1..Len(recv[extractors[k]]) : recv[extractors[k]][i] = n

\* An extractor was added while the first Notify call was in progress and
\* was called with its event, as was the extractor registered beforehand; the
\* next event reached both.
C18_Witness ==
    /\ NotifyDone
    /\ notifyCount = 2
    /\ \E k \in DOMAIN extractors, j \in DOMAIN extractors :
          /\ regAt[k] = 1 /\ recv[extractors[k]] = <<1, 2>>
          /\ regAt[j] = 0 /\ recv[extractors[j]] = <<1, 2>>

(***************************************************************************)
(* C19.  The error aggregate of one Notify call holds exactly one entry    *)
(* per extractor whose ExtractNotification returned an error, in the order *)
(* of the calls, each entry naming its extractor and wrapping its error;   *)
(* the aggregate is logged if and only if at least one extractor failed.   *)
(***************************************************************************)
C19_OneEntryPerFailure ==
    LET failed == SelectSeq(calls, LAMBDA c : c.err # NoErr)
        entry(c) == "extractor " \o TypedNameString(c.ext.tn) \o ": " \o c.err
    IN  /\ Len(errs) = Len(failed)
        /\ \A i \in 1..Len(failed) : errs[i] = entry(failed[i])
        /\ \A i, j \in 1..Len(failed) : i # j => failed[i].ext # failed[j].ext
        /\ NotifyDone =>
              /\ (logOut # << >>) <=> (Len(failed) > 0)
              /\ Len(failed) > 0 =>
                    /\ Len(logOut) = 1
                    /\ logOut[1].err = [joined |-> errs]

\* Both extractors of a Notify call failed and the log holds the two entries.
C19_Witness ==
    /\ NotifyDone
    /\ Len(calls) = 2
    /\ \A i \in 1..2 : calls[i].err # NoErr
    /\ Len(logOut) = 1
    /\ Len(logOut[1].err.joined) = 2

(***************************************************************************)
(* C20.  The capability-mismatch error AddExtractor returns for a plugin   *)
(* that is not a NotificationExtractor names both the offending plugin and *)
(* the owning source.                                                      *)
(***************************************************************************)
C20_MismatchNamesPluginAndSource ==
    addErr = ErrNotNotificationExtractor =>
        /\ \E i \in 1..Len(addErrArgs) :
              addErrArgs[i] = TypedNameString(addArg.tn)
        /\ \E i \in 1..Len(addErrArgs) :
              addErrArgs[i] = TypedNameString(SourceTypedName)

(***************************************************************************)
(* C15.  For a flag registered through AddFlags, GetStringFlagValue (for a *)
(* string flag) and GetBoolFlagValue (for a bool flag) return no error and *)
(* the flag's current value, the value of the variable bound to it,        *)
(* whether or not the flag is marked Deprecated.                           *)
(***************************************************************************)
C15_GettersReturnCurrentValue ==
    ( /\ getOut.fn \in {"GetStringFlagValue", "GetBoolFlagValue"}
      /\ getOut.name \in DOMAIN fs
      /\ getOut.bound.type =
            (IF getOut.fn = "GetStringFlagValue" THEN "string" ELSE "bool") )
    => /\ getOut.err = NilError
       /\ getOut.val = getOut.bound

(***************************************************************************)
(* C16 as stated.  When AddFlags returns nil, every Flag of the list is    *)
(* registered in the FlagSet under its Name and the variable bound to it   *)
(* in vars holds the flag's DefValue; a later successful Set on a flag     *)
(* updates the variable bound to it.                                       *)
(***************************************************************************)
ValueOfString(t, x) ==
    CASE t = "string" -> GoString(x)
      [] t = "bool" -> GoBool(ParseBool[x])
      [] t = "int" -> GoInt(ParseInt[x])
      [] OTHER -> GoDuration(ParseInt[x])

SetUpdatesBound ==
    (setOut.fn = "Set" /\ setOut.err = NilError) =>
        /\ setOut.name \in DOMAIN fs
        /\ LET a == FlagPtr(fs[setOut.name]).addr
           IN  mem[a] = ValueOfString(mem[a].type, setOut.x)

C16_EachHoldsItsDefault ==
    /\ flagsErr = NilError =>
          \A i \in 1..Len(flagsArg) :
              LET f == flagsArg[i]
              IN  /\ f.Name \in DOMAIN fs
                  /\ FlagPtr(fs[f.Name]) = varsArg[f.Name]
                  /\ mem[varsArg[f.Name].addr] = f.DefValue
    /\ SetUpdatesBound

\* The last of the rounds i of the loop whose flag is bound to the variable
\* at address a.
LastBoundTo(flags, varMap, rounds, a) ==
    CHOOSE i \in rounds :
        /\ varMap[flags[i].Name].addr = a
        /\ \A j \in rounds : varMap[flags[j].Name].addr = a => j <= i

(***************************************************************************)
(* C16.  When AddFlags returns nil, every Flag of the list is registered   *)
(* in the FlagSet under its Name, bound to the variable vars gives for it, *)
(* and that variable holds the DefValue of the last flag of the list that  *)
(* is bound to it: the flag's own DefValue unless a later flag shares the  *)
(* variable.  When a later Set of a flag succeeds, the variable bound to   *)
(* the flag holds the value the string stands for.                         *)
(***************************************************************************)
C16_RegisteredAndBound ==
    /\ flagsErr = NilError =>
          \A i \in 1..Len(flagsArg) :
              LET f == flagsArg[i]
                  a == varsArg[f.Name].addr
                  last == LastBoundTo(flagsArg, varsArg, 1..Len(flagsArg), a)
              IN  /\ f.Name \in DOMAIN fs
                  /\ FlagPtr(fs[f.Name]) = varsArg[f.Name]
                  /\ (fs[f.Name].impl = "deprecatedValue") <=> f.Deprecated
                  /\ mem[a] = flagsArg[last].DefValue
    /\ SetUpdatesBound

\* AddFlags returned nil for a deprecated flag and its replacement, both
\* bound to one variable, which holds the default of the second.
C16_Witness ==
    /\ flagsErr = NilError
    /\ flagsArg = <<FlagCertPath(TRUE), FlagTlsCertDir>>
    /\ varsArg["cert-path"] = varsArg["tls-cert-dir"]
    /\ DOMAIN fs = {"cert-path", "tls-cert-dir", "grpc-port", "timeout"}
    /\ mem[1] = GoString("/tls")
    /\ mem[4] = GoDuration(30)

(***************************************************************************)
(* C21.  The registry only grows: whatever is called afterwards (Notify,   *)
(* Collect, Extractors, GVK, an AddExtractor that fails), an extractor     *)
(* whose AddExtractor returned nil is still stored under its name, is      *)
(* reported by Extractors(), and has been called for every event passed to *)
(* Notify since.                                                           *)
(***************************************************************************)
C21_RegistryOnlyGrows ==
    \A k \in DOMAIN stored :
        /\ k \in DOMAIN extractors
        /\ extractors[k] = stored[k]
        /\ TypedNameString(stored[k].tn) \in DOMAIN Extractors
        /\ \A n \in (regAt[k] + 1)..LastSent(k) :
              \E i \in 1..Len(recv[stored[k]]) : recv[stored[k]][i] = n

\* Two extractors were added; since then an AddExtractor failed, Collect was
\* called and two events were dispatched, and both extractors are still
\* registered and were called with both events.
C21_Witness ==
    /\ Cardinality(DOMAIN stored) = 2
    /\ addErr = ErrNotNotificationExtractor
    /\ collectOut = NoErr
    /\ NotifyDone /\ notifyCount = 2
    /\ \A k \in DOMAIN stored :
          /\ extractors[k] = stored[k]
          /\ recv[stored[k]] = <<1, 2>>

(***************************************************************************)
(* C22.  The warning of a deprecated flag is written at most once over any *)
(* sequence of Set calls on the flag: it has been written exactly when a   *)
(* Set of the flag has succeeded, so a Set that fails writes nothing and   *)
(* does not use the warning up; it names the replacement when there is     *)
(* one; Set returns what the wrapped value's Set returns; a flag not       *)
(* marked Deprecated never writes a warning.                               *)
(***************************************************************************)
IsWarning(line) ==
    line.fmt \in {"Warning: --%s is deprecated; use %s instead.\n",
                  "Warning: --%s is deprecated and will be removed in an upcoming release.\n"}

WarningsOf(name) ==
    {i \in 1..Len(out) : IsWarning(out[i]) /\ out[i].args[1] = name}

C22_WarnedAtMostOnce ==
    /\ \A i \in 1..Len(out) : out[i].args[1] \in DOMAIN fs
    /\ \A name \in DOMAIN fs :
          LET deprecated == fs[name].impl = "deprecatedValue"
          IN  /\ Cardinality(WarningsOf(name)) <= 1
              /\ ~deprecated => WarningsOf(name) = {}
              /\ deprecated =>
                    /\ (WarningsOf(name) # {}) <=> (name \in DOMAIN lastSet)
                    /\ fs[name].warned <=> (name \in DOMAIN lastSet)
              /\ \A i \in WarningsOf(name) :
                    IF fs[name].replacedBy # ""
                    THEN out[i] =
                           Errorf("Warning: --%s is deprecated; use %s instead.\n",
                                  <<name, fs[name].replacedBy>>)
                    ELSE out[i] =
                           Errorf("Warning: --%s is deprecated and will be removed in an upcoming release.\n",
                                  <<name>>)
    /\ (setOut.fn = "Set" /\ setOut.name \in DOMAIN fs) =>
          LET t == mem[FlagPtr(fs[setOut.name]).addr].type
          IN  /\ setOut.err \in {NilError, Errorf("parse error", << >>)}
              /\ (setOut.err = NilError) <=>
                    \/ t = "string"
                    \/ t = "bool" /\ setOut.x \in DOMAIN ParseBool
                    \/ t = "int" /\ setOut.x \in DOMAIN ParseInt
                    \/ t = "time.Duration" /\ setOut.x \in DOMAIN ParseInt

\* Two deprecated flags were each set with success and have each written
\* their warning once; the last Set, of the bool flag, failed.
C22_Witness ==
    /\ Len(out) = 2
    /\ {"cert-path", "secure-serving"} \subseteq DOMAIN lastSet
    /\ lastSet["cert-path"] = "x"
    /\ setOut.fn = "Set"
    /\ setOut.name = "secure-serving"
    /\ setOut.err # NilError

(***************************************************************************)
(* The checks of one round of the loop, by the format of their error.      *)
(***************************************************************************)
DefectOf(f, varMap) ==
    IF f.DefValue = NilValue
    THEN "flag %q must have a non-nil default value"
    ELSE IF f.Name \notin DOMAIN varMap
    THEN "variable pointer for flag %q not provided"
    ELSE IF f.DefValue.type \notin {"string", "int", "bool", "time.Duration"}
    THEN "unsupported flag type for %q: %T"
    ELSE IF varMap[f.Name].type # "*" \o f.DefValue.type
    THEN "flag %q: variable must be *%s, got %T"
    ELSE ""

FirstDefect(flags, varMap) ==
    LET bad == {i \in 1..Len(flags) : DefectOf(flags[i], varMap) # ""}
    IN  IF bad = {} THEN 0 ELSE CHOOSE i \in bad : \A j \in bad : i <= j

\* The flags the loop reaches before it returns: those before the first
\* defective one.
RoundsOf(flags, varMap) ==
    IF FirstDefect(flags, varMap) = 0
    THEN 1..Len(flags)
    ELSE 1..(FirstDefect(flags, varMap) - 1)

\* Whether each of those flags can be defined in the FlagSet as the call
\* found it.
Definable(flags, varMap) ==
    \A j \in RoundsOf(flags, varMap) :
        /\ flags[j].Name \notin DOMAIN fsPre
        /\ flags[j].Name \notin undef
        /\ \A h \in 1..(j - 1) : flags[h].Name # flags[j].Name

====
